---- MODULE Spec2Model ----
(***************************************************************************)
(* Egg price interpolation tool: the command-line program EgPrice.py and   *)
(* the two Flask applications "Source Code/app.py" and site/app.py.        *)
(*                                                                         *)
(* Numbers.  The programs compute in binary floating point; the            *)
(* properties studied here are stated in exact arithmetic, so a Python     *)
(* float is modelled as an exact rational <<num, den>> with den > 0 in     *)
(* lowest terms.  Python lists are 0-based; a list is a TLA+ sequence and  *)
(* At(s, i) reads the element with Python subscript i.                     *)
(***************************************************************************)
EXTENDS Integers, Sequences, FiniteSets, TLC

VARIABLES shell, pc, weekly_prices, x_all, y_all, date_in, target_x,
          n_points, pos, left, right, selected, reads, x_sel, y_sel,
          x_win, y_win, newton_val, lag_val, error, history

vars == <<shell, pc, weekly_prices, x_all, y_all, date_in, target_x,
          n_points, pos, left, right, selected, reads, x_sel, y_sel,
          x_win, y_win, newton_val, lag_val, error, history>>

(***************************************************************************)
(* Bounds of the model.                                                    *)
(***************************************************************************)
MaxK == 7

MaxShellK == 3

MaxHistory == 1

MaxShellDay == 7

MaxEvalPoints == 3

MaxCoord == 4

MaxEvalValue == 2

None == "None"

\* None where a number (a rational) is expected
NoValue == <<>>

(***************************************************************************)
(* Exact rational arithmetic.                                              *)
(***************************************************************************)
Abs(a) == IF a < 0 THEN -a ELSE a

RECURSIVE GCD(_, _)
GCD(a, b) == IF b = 0 THEN a ELSE GCD(b, a % b)

Norm(n, d) ==
    LET s == IF d < 0 THEN -1 ELSE 1
        g == GCD(Abs(n), Abs(d))
    IN  <<(s * n) \div g, (s * d) \div g>>

Rat(i) == <<i, 1>>

\* sums over the least common denominator and products after cancelling
\* keep the intermediate integers small
RAdd(a, b) ==
    LET g == GCD(a[2], b[2])
    IN  Norm(a[1] * (b[2] \div g) + b[1] * (a[2] \div g),
             (a[2] \div g) * b[2])

RNeg(a) == <<-a[1], a[2]>>

RSub(a, b) == RAdd(a, RNeg(b))

RMul(a, b) ==
    LET g1 == GCD(Abs(a[1]), b[2])
        g2 == GCD(Abs(b[1]), a[2])
    IN  Norm((a[1] \div g1) * (b[1] \div g2), (a[2] \div g2) * (b[2] \div g1))

RDiv(a, b) == RMul(a, Norm(b[2], b[1]))

RAbs(a) == <<Abs(a[1]), a[2]>>

RLt(a, b) == a[1] * b[2] < b[1] * a[2]

RLeq(a, b) == a[1] * b[2] <= b[1] * a[2]

(***************************************************************************)
(* Python list primitives.                                                 *)
(***************************************************************************)
At(s, i) == s[i + 1]

\* s[a:b] with Python's treatment of negative and out-of-range bounds
PyBound(len, i) ==
    IF i < 0 THEN (IF i + len < 0 THEN 0 ELSE i + len)
    ELSE IF i > len THEN len ELSE i

Slice(s, a, b) ==
    LET lo == PyBound(Len(s), a)
        hi == PyBound(Len(s), b)
    IN  IF hi <= lo THEN <<>> ELSE SubSeq(s, lo + 1, hi)

\* list.sort(key=...) / sorted(..., key=...): stable, ascending by key
SortRank(keys, i) ==
    1 + Cardinality({j \in 1..Len(keys) :
                        \/ RLt(keys[j], keys[i])
                        \/ (keys[j] = keys[i] /\ j < i)})

StableSort(s, keys) ==
    [p \in 1..Len(s) |-> s[CHOOSE i \in 1..Len(s) : SortRank(keys, i) = p]]

RECURSIVE BisectLoop(_, _, _, _)
BisectLoop(a, x, lo, hi) ==
    IF lo < hi
    THEN LET mid == (lo + hi) \div 2
         IN  IF RLt(At(a, mid), x)
             THEN BisectLoop(a, x, mid + 1, hi)
             ELSE BisectLoop(a, x, lo, mid)
    ELSE lo

bisect_left(a, x) == BisectLoop(a, x, 0, Len(a))

(***************************************************************************)
(* Coordinate mapper.  A date is its signed distance in days from          *)
(* BASE_WEEK1_MONDAY.                                                      *)
(***************************************************************************)
DaysPerWeek == 7

\* the week counted from 0 instead of 1
date_to_fractional_week_zero_based(d) ==
    LET delta_days  == d
        week_number == delta_days \div DaysPerWeek
        day_index   == delta_days % DaysPerWeek
    IN  RAdd(Rat(week_number), RDiv(Rat(day_index), Rat(DaysPerWeek)))

date_to_fractional_week(d) ==
    LET delta_days  == d
        week_number == delta_days \div DaysPerWeek + 1
        day_index   == delta_days % DaysPerWeek
    IN  RAdd(Rat(week_number), RDiv(Rat(day_index), Rat(DaysPerWeek)))

(***************************************************************************)
(* Series store.                                                           *)
(***************************************************************************)
\* the None that fills the slots of the weeks still to come
NoPrice == -1

RECURSIVE PopulatedCount(_, _)
PopulatedCount(lst, i) ==
    IF i > Len(lst) \/ lst[i] = NoPrice THEN i - 1
    ELSE PopulatedCount(lst, i + 1)

build_xy_from_weekly(lst) ==
    LET k == PopulatedCount(lst, 1)
    IN  <<[i \in 1..k |-> Rat(i)], [i \in 1..k |-> Rat(lst[i])]>>

build_xy(prices) ==
    <<[i \in 1..Len(prices) |-> Rat(i)],
      [i \in 1..Len(prices) |-> Rat(prices[i])]>>

(***************************************************************************)
(* Neighbor selector, two-cursor variant (EgPrice.py).  The result is      *)
(* <<x_sel, y_sel, idxs, "ok">>; a subscript outside the list raises       *)
(* IndexError, which is the result <<<<>>, <<>>, <<>>, "IndexError">>.     *)
(***************************************************************************)
\* the farther neighbor preferred (comparison reversed)
PickLeftFarther(xs, t, l, r) ==
    IF l < 0 THEN FALSE
    ELSE IF r >= Len(xs) THEN TRUE
    ELSE RLeq(RAbs(RSub(At(xs, r), t)), RAbs(RSub(At(xs, l), t)))

\* a tie resolved to the right (< for <=)
PickLeftStrict(xs, t, l, r) ==
    IF l < 0 THEN FALSE
    ELSE IF r >= Len(xs) THEN TRUE
    ELSE RLt(RAbs(RSub(At(xs, l), t)), RAbs(RSub(At(xs, r), t)))

\* the left cursor taken although it has left the store
PickLeftBelowStore(xs, t, l, r) ==
    IF l < 0 THEN TRUE
    ELSE IF r >= Len(xs) THEN TRUE
    ELSE RLeq(RAbs(RSub(At(xs, l), t)), RAbs(RSub(At(xs, r), t)))

PickLeftDecision(xs, t, l, r) ==
    IF l < 0 THEN FALSE
    ELSE IF r >= Len(xs) THEN TRUE
    ELSE RLeq(RAbs(RSub(At(xs, l), t)), RAbs(RSub(At(xs, r), t)))

\* subscripts the decision evaluates
DecisionReads(xs, l, r) ==
    IF l < 0 \/ r >= Len(xs) THEN {} ELSE {l, r}

PickIndex(xs, t, l, r) == IF PickLeftDecision(xs, t, l, r) THEN l ELSE r

\* a Python subscript is legal for -len <= i < len; negative ones wrap
InRange(xs, i) == -Len(xs) <= i /\ i < Len(xs)

PyAt(s, i) == IF i < 0 THEN s[i + Len(s) + 1] ELSE s[i + 1]

\* the picks returned in the order they were taken
SortSelectedOmitted(sel) == sel

SortSelected(sel) == StableSort(sel, [i \in 1..Len(sel) |-> sel[i][1]])

RECURSIVE ChooseLoop(_, _, _, _, _, _, _)
ChooseLoop(xs, ys, t, n, l, r, sel) ==
    IF Len(sel) < n
    THEN LET i == PickIndex(xs, t, l, r)
         IN  IF ~InRange(xs, i) THEN <<<<>>, <<>>, <<>>, "IndexError">>
             ELSE IF i = l
                  THEN ChooseLoop(xs, ys, t, n, l - 1, r,
                                  Append(sel, <<PyAt(xs, i), PyAt(ys, i), i>>))
                  ELSE ChooseLoop(xs, ys, t, n, l, r + 1,
                                  Append(sel, <<PyAt(xs, i), PyAt(ys, i), i>>))
    ELSE LET s == SortSelected(sel)
         IN  <<[k \in 1..Len(s) |-> s[k][1]], [k \in 1..Len(s) |-> s[k][2]],
               [k \in 1..Len(s) |-> s[k][3]], "ok">>

choose_nearest_points(xs, ys, t, n) ==
    LET p == bisect_left(xs, t)
    IN  ChooseLoop(xs, ys, t, n, p - 1, p, <<>>)

(***************************************************************************)
(* Neighbor selector, window-then-sort variant (both Flask applications).  *)
(* pairs[:n] is a slice, so a non-positive n follows Python's slice rules. *)
(***************************************************************************)
Zip(xs, ys) == [i \in 1..Len(xs) |-> <<xs[i], ys[i]>>]

\* the window sorted by signed instead of absolute distance
WindowSelectSigned(pairs, t, n) ==
    LET byDist  == StableSort(pairs,
                      [i \in 1..Len(pairs) |-> RSub(pairs[i][1], t)])
        nearest == Slice(byDist, 0, n)
        byCoord == StableSort(nearest,
                      [i \in 1..Len(nearest) |-> nearest[i][1]])
    IN  <<[k \in 1..Len(byCoord) |-> byCoord[k][1]],
          [k \in 1..Len(byCoord) |-> byCoord[k][2]]>>

WindowSelect(pairs, t, n) ==
    LET byDist  == StableSort(pairs,
                      [i \in 1..Len(pairs) |-> RAbs(RSub(pairs[i][1], t))])
        nearest == Slice(byDist, 0, n)
        byCoord == StableSort(nearest,
                      [i \in 1..Len(nearest) |-> nearest[i][1]])
    IN  <<[k \in 1..Len(byCoord) |-> byCoord[k][1]],
          [k \in 1..Len(byCoord) |-> byCoord[k][2]]>>

\* the window one entry short on the right
nearest_points_short(xs, ys, t, n) ==
    LET p  == bisect_left(xs, t)
        lo == IF p - n > 0 THEN p - n ELSE 0
        hi == IF p + n - 1 < Len(xs) THEN p + n - 1 ELSE Len(xs)
    IN  WindowSelect(Zip(Slice(xs, lo, hi), Slice(ys, lo, hi)), t, n)

\* "Source Code/app.py"
nearest_points(xs, ys, t, n) ==
    LET p  == bisect_left(xs, t)
        lo == IF p - n > 0 THEN p - n ELSE 0
        hi == IF p + n < Len(xs) THEN p + n ELSE Len(xs)
    IN  WindowSelect(Zip(Slice(xs, lo, hi), Slice(ys, lo, hi)), t, n)

\* site/app.py
nearest_points_site(xs, ys, t, n) ==
    LET p  == bisect_left(xs, t)
        lo == IF p - n > 0 THEN p - n ELSE 0
    IN  WindowSelect(Zip(Slice(xs, lo, p + n), Slice(ys, lo, p + n)), t, n)

(***************************************************************************)
(* Newton evaluator.  col is column j-1 of the divided-difference table,   *)
(* coeffs its top row so far.  The result is <<result, coeffs, "ok">>.     *)
(***************************************************************************)
\* the denominator taken between adjacent points
NewtonDenomAdjacent(x, i, j) == RSub(x[i + 1], x[i])

NewtonDenom(x, i, j) == RSub(x[i + j], x[i])

RECURSIVE DividedDifferences(_, _, _, _)
DividedDifferences(x, col, j, coeffs) ==
    IF j < Len(x)
    THEN LET next == [i \in 1..(Len(x) - j) |->
                        RDiv(RSub(col[i + 1], col[i]), NewtonDenom(x, i, j))]
         IN  DividedDifferences(x, next, j + 1, Append(coeffs, next[1]))
    ELSE coeffs

RECURSIVE NewtonAccumulate(_, _, _, _, _, _)
NewtonAccumulate(x, coeffs, t, j, prod, result) ==
    IF j < Len(x)
    THEN LET p == RMul(prod, RSub(t, At(x, j - 1)))
         IN  NewtonAccumulate(x, coeffs, t, j + 1, p,
                              RAdd(result, RMul(At(coeffs, j), p)))
    ELSE result

\* with no points at all, coeffs[0] (table[0][0]) raises IndexError
divided_difference_newton(x, y, t) ==
    IF Len(x) = 0 THEN <<NoValue, <<>>, "IndexError">>
    ELSE LET coeffs == DividedDifferences(x, y, 1, <<y[1]>>)
         IN  <<NewtonAccumulate(x, coeffs, t, 1, Rat(1), coeffs[1]), coeffs,
               "ok">>

(***************************************************************************)
(* Lagrange evaluator.                                                     *)
(***************************************************************************)
\* the denominator with its operands exchanged
LagrangeFactorSwapped(x, t, i, j) ==
    RDiv(RSub(t, At(x, j)), RSub(At(x, j), At(x, i)))

LagrangeFactor(x, t, i, j) ==
    RDiv(RSub(t, At(x, j)), RSub(At(x, i), At(x, j)))

RECURSIVE LagrangeBasis(_, _, _, _, _)
LagrangeBasis(x, t, i, j, Li) ==
    IF j < Len(x)
    THEN LagrangeBasis(x, t, i, j + 1,
            IF i # j THEN RMul(Li, LagrangeFactor(x, t, i, j)) ELSE Li)
    ELSE Li

RECURSIVE LagrangeSum(_, _, _, _, _)
LagrangeSum(x, y, t, i, total) ==
    IF i < Len(x)
    THEN LagrangeSum(x, y, t, i + 1,
            RAdd(total, RMul(At(y, i), LagrangeBasis(x, t, i, 0, Rat(1)))))
    ELSE total

lagrange_interpolation(x, y, t) == LagrangeSum(x, y, t, 0, Rat(0))

(***************************************************************************)
(* Inputs.  A store is a prefix of the price list (prices in hundredths),  *)
(* or one of the two stores of the documented scenarios.  Targets lie on   *)
(* the grid of days (sevenths of a week) and on the half-weeks, from the   *)
(* first coordinate to two weeks past the last one.                        *)
(***************************************************************************)
PriceList == <<729, 723, 725, 734, 756, 764, 773, 787, 788, 796, 802, 810>>

ExampleStores == {<<1, 2, 3, 5, 4>>, <<7, 8, 9>>}

Stores == ExampleStores \cup {SubSeq(PriceList, 1, k) : k \in 2..MaxK}

Targets(K) ==
    {Norm(k, DaysPerWeek) : k \in DaysPerWeek..(DaysPerWeek * (K + 2))}
        \cup {Norm(k, 2) : k \in 2..(2 * (K + 2))}

(***************************************************************************)
(* The selectors: one query through the two-cursor selector (one action    *)
(* per loop iteration), then through the window-then-sort selector of      *)
(* either Flask application on the same store, target and count.           *)
(***************************************************************************)
SelectInit ==
    /\ weekly_prices \in Stores
    /\ x_all = build_xy(weekly_prices)[1]
    /\ y_all = build_xy(weekly_prices)[2]
    /\ target_x \in Targets(Len(weekly_prices))
    /\ n_points \in 2..Len(weekly_prices)
    /\ pc = "bisect"
    /\ shell = None
    /\ date_in = None
    /\ pos = None
    /\ left = None
    /\ right = None
    /\ selected = <<>>
    /\ reads = {}
    /\ x_sel = <<>>
    /\ y_sel = <<>>
    /\ x_win = <<>>
    /\ y_win = <<>>
    /\ newton_val = NoValue
    /\ lag_val = NoValue
    /\ error = None
    /\ history = 0

Bisect ==
    /\ pc = "bisect"
    /\ pos' = bisect_left(x_all, target_x)
    /\ left' = pos' - 1
    /\ right' = pos'
    /\ selected' = <<>>
    /\ pc' = "loop"
    /\ UNCHANGED <<shell, weekly_prices, x_all, y_all, date_in, target_x,
                   n_points, reads, x_sel, y_sel, x_win, y_win, newton_val,
                   lag_val, error, history>>

\* one iteration of the while loop; an illegal subscript ends the call
Pick(pick_left) ==
    /\ pc = "loop"
    /\ Len(selected) < n_points
    /\ pick_left = PickLeftDecision(x_all, target_x, left, right)
    /\ LET i == PickIndex(x_all, target_x, left, right)
       IN  /\ reads' = reads \cup DecisionReads(x_all, left, right) \cup {i}
           /\ IF InRange(x_all, i)
              THEN /\ selected' =
                         Append(selected, <<PyAt(x_all, i), PyAt(y_all, i), i>>)
                   /\ left' = IF i = left THEN left - 1 ELSE left
                   /\ right' = IF i = left THEN right ELSE right + 1
                   /\ pc' = "loop"
              ELSE /\ pc' = "IndexError"
                   /\ UNCHANGED <<selected, left, right>>
    /\ UNCHANGED <<shell, weekly_prices, x_all, y_all, date_in, target_x,
                   n_points, pos, x_sel, y_sel, x_win, y_win, newton_val,
                   lag_val, error, history>>

PickLeft == Pick(TRUE)

PickRight == Pick(FALSE)

ReturnSelection ==
    /\ pc = "loop"
    /\ Len(selected) >= n_points
    /\ LET s == SortSelected(selected)
       IN  /\ x_sel' = [k \in 1..Len(s) |-> s[k][1]]
           /\ y_sel' = [k \in 1..Len(s) |-> s[k][2]]
    /\ pc' = "window"
    /\ UNCHANGED <<shell, weekly_prices, x_all, y_all, date_in, target_x,
                   n_points, pos, left, right, selected, reads, x_win, y_win,
                   newton_val, lag_val, error, history>>

NearestPointsSource ==
    /\ pc = "window"
    /\ shell' = "source"
    /\ x_win' = nearest_points(x_all, y_all, target_x, n_points)[1]
    /\ y_win' = nearest_points(x_all, y_all, target_x, n_points)[2]
    /\ pc' = "done"
    /\ UNCHANGED <<weekly_prices, x_all, y_all, date_in, target_x, n_points,
                   pos, left, right, selected, reads, x_sel, y_sel,
                   newton_val, lag_val, error, history>>

NearestPointsSite ==
    /\ pc = "window"
    /\ shell' = "site"
    /\ x_win' = nearest_points_site(x_all, y_all, target_x, n_points)[1]
    /\ y_win' = nearest_points_site(x_all, y_all, target_x, n_points)[2]
    /\ pc' = "done"
    /\ UNCHANGED <<weekly_prices, x_all, y_all, date_in, target_x, n_points,
                   pos, left, right, selected, reads, x_sel, y_sel,
                   newton_val, lag_val, error, history>>

SelectNext ==
    \/ Bisect
    \/ PickLeft
    \/ PickRight
    \/ ReturnSelection
    \/ NearestPointsSource
    \/ NearestPointsSite

SpecSelect == SelectInit /\ [][SelectNext]_vars

(***************************************************************************)
(* Properties of the selectors.                                            *)
(***************************************************************************)
Dist(x) == RAbs(RSub(x, target_x))

Coords(xs) == {xs[k] : k \in 1..Len(xs)}

Ascending(xs) == \A k \in 1..(Len(xs) - 1) : RLt(xs[k], xs[k + 1])

FromStore(xs, ys) ==
    \A k \in 1..Len(xs) :
        \E i \in 1..Len(x_all) : x_all[i] = xs[k] /\ y_all[i] = ys[k]

ValidSelection(xs, ys) ==
    /\ Len(xs) = n_points
    /\ Len(ys) = n_points
    /\ Ascending(xs)
    /\ FromStore(xs, ys)

Returned == pc \in {"window", "done"}

\* C1: for 2 <= n <= K and every target >= 1 both selectors return exactly
\* n observations of the store, in strictly ascending coordinate order (so
\* no coordinate twice), and the two-cursor call never fails.
C1_SelectionShape ==
    /\ pc # "IndexError"
    /\ Returned => ValidSelection(x_sel, y_sel)
    /\ pc = "done" => ValidSelection(x_win, y_win)

C1_Witness ==
    /\ pc = "done"
    /\ shell = "site"
    /\ RLt(Rat(Len(x_all)), target_x)
    /\ n_points = 3
    /\ Len(x_all) = 5
    /\ x_win = <<Rat(3), Rat(4), Rat(5)>>
    /\ x_sel = x_win

Nearest(xs) ==
    \A k \in 1..Len(xs) :
        \A i \in 1..Len(x_all) :
            x_all[i] \notin Coords(xs) => RLeq(Dist(xs[k]), Dist(x_all[i]))

\* C2: the selection of either selector is a set of n nearest entries: no
\* excluded store entry is strictly closer to the target than a selected one.
C2_NearestEntries ==
    /\ Returned => Nearest(x_sel)
    /\ pc = "done" => Nearest(x_win)

C2_Witness ==
    /\ pc = "done"
    /\ shell = "source"
    /\ n_points = 3
    /\ Len(x_all) = 7
    /\ target_x = <<31, 7>>
    /\ x_sel = <<Rat(3), Rat(4), Rat(5)>>
    /\ x_win = x_sel

TieLeft(xs) ==
    \A i \in 1..Len(x_all) :
        \A j \in (i + 1)..Len(x_all) :
            (Dist(x_all[i]) = Dist(x_all[j]) /\ x_all[j] \in Coords(xs))
                => x_all[i] \in Coords(xs)

IsInteger(q) == q[2] = 1

\* C4: of two store entries at equal distance on either side of the target
\* the right one is never selected without the left one; store 1..4, target
\* 2.5, n = 3 gives {1,2,3}; an integer target c, 2 <= c <= K-1, with n = 2
\* gives {c-1, c}.
C4_TieBreakLeft ==
    /\ Returned => TieLeft(x_sel)
    /\ pc = "done" => TieLeft(x_win)
    /\ (Returned /\ Len(x_all) = 4 /\ target_x = <<5, 2>> /\ n_points = 3)
          => x_sel = <<Rat(1), Rat(2), Rat(3)>>
    /\ (pc = "done" /\ Len(x_all) = 4 /\ target_x = <<5, 2>> /\ n_points = 3)
          => x_win = <<Rat(1), Rat(2), Rat(3)>>
    /\ (/\ Returned
        /\ IsInteger(target_x)
        /\ 2 <= target_x[1]
        /\ target_x[1] <= Len(x_all) - 1
        /\ n_points = 2)
          => /\ x_sel = <<Rat(target_x[1] - 1), target_x>>
             /\ pc = "done" => x_win = x_sel

C4_Witness ==
    /\ pc = "done"
    /\ Len(x_all) = 4
    /\ target_x = <<5, 2>>
    /\ n_points = 3
    /\ x_sel = <<Rat(1), Rat(2), Rat(3)>>
    /\ x_win = x_sel
    /\ Rat(4) \notin Coords(x_sel)

PickedIndices == {selected[k][3] : k \in 1..Len(selected)}

\* C5: the two-cursor selector reads no subscript outside 0..K-1; the
\* picked entries are exactly those between the cursors, so once a cursor
\* has left the store every further pick comes from the other side; store
\* [1,2,3] with values [7,8,9], target 1, n = 2 yields {1,2}.
C5_CursorsInBounds ==
    /\ pc # "IndexError"
    /\ reads \subseteq 0..(Len(x_all) - 1)
    /\ pc # "bisect" =>
          /\ -1 <= left
          /\ right <= Len(x_all)
          /\ PickedIndices = (left + 1)..(right - 1)
    /\ (Returned /\ weekly_prices = <<7, 8, 9>> /\ target_x = Rat(1)
            /\ n_points = 2)
          => /\ x_sel = <<Rat(1), Rat(2)>>
             /\ y_sel = <<Rat(7), Rat(8)>>

C5_Witness ==
    /\ pc = "window"
    /\ weekly_prices = <<7, 8, 9>>
    /\ target_x = Rat(1)
    /\ n_points = 2
    /\ left = -1
    /\ right = 2
    /\ reads = {0, 1}
    /\ x_sel = <<Rat(1), Rat(2)>>

\* the window of 2n candidates around pos is cut by neither end of the store
Interior == n_points <= pos /\ pos <= Len(x_all) - n_points

\* C6: for interior targets the window-then-sort selector returns the same
\* selection as the two-cursor selector.
C6_InteriorAgreement ==
    (pc = "done" /\ Interior) => (x_win = x_sel /\ y_win = y_sel)

C6_Witness ==
    /\ pc = "done"
    /\ Interior
    /\ n_points = 3
    /\ target_x = <<7, 2>>
    /\ x_win = <<Rat(2), Rat(3), Rat(4)>>
    /\ x_win = x_sel
    /\ y_win = y_sel

\* C10 (as stated): some store (the one in hand or another), target and n
\* whose window is cut by an end of the store make the two selectors return
\* different selections.
C10_EdgesDiverge ==
    \E store \in Stores \cup {weekly_prices} :
        \E t \in Targets(Len(store)) :
            \E n \in 2..Len(store) :
                LET xs == build_xy(store)[1]
                    ys == build_xy(store)[2]
                    p  == bisect_left(xs, t)
                    c  == choose_nearest_points(xs, ys, t, n)
                IN  /\ (p < n \/ p > Len(xs) - n)
                    /\ \/ nearest_points(xs, ys, t, n) # <<c[1], c[2]>>
                       \/ nearest_points_site(xs, ys, t, n) # <<c[1], c[2]>>

\* C10 (amended): also when the window is cut by an end of the store, the
\* two selectors return the same selection.
C10_EdgeAgreement ==
    (pc = "done" /\ ~Interior) => (x_win = x_sel /\ y_win = y_sel)

C10_Witness ==
    /\ pc = "done"
    /\ ~Interior
    /\ pos = Len(x_all)
    /\ RLt(Rat(Len(x_all)), target_x)
    /\ n_points = 2
    /\ Len(x_all) = 3
    /\ x_win = <<Rat(2), Rat(3)>>
    /\ x_win = x_sel
    /\ y_win = y_sel

(***************************************************************************)
(* The evaluators on their own: any selection of 2..MaxEvalPoints points   *)
(* with ascending, pairwise distinct integer coordinates (not necessarily  *)
(* consecutive) and small integer values, and the documented five-point    *)
(* scenario; Newton first, then Lagrange, as the callers run them.         *)
(***************************************************************************)
AscendingCoords ==
    {s \in UNION {[1..n -> 1..MaxCoord] : n \in 2..MaxEvalPoints} :
        \A k \in 1..(Len(s) - 1) : s[k] < s[k + 1]}

EvalSelections ==
    UNION {{<<s, v>> : v \in [1..Len(s) -> 0..MaxEvalValue]} :
              s \in AscendingCoords}
        \cup {<<<<1, 2, 3, 4, 5>>, <<1, 2, 3, 5, 4>>>>}

EvalInit ==
    /\ \E sel \in EvalSelections :
          /\ x_sel = [k \in 1..Len(sel[1]) |-> Rat(sel[1][k])]
          /\ y_sel = [k \in 1..Len(sel[2]) |-> Rat(sel[2][k])]
          /\ n_points = Len(sel[1])
          /\ target_x \in Targets(sel[1][Len(sel[1])])
    /\ pc = "newton"
    /\ shell = None
    /\ weekly_prices = <<>>
    /\ x_all = <<>>
    /\ y_all = <<>>
    /\ date_in = None
    /\ pos = None
    /\ left = None
    /\ right = None
    /\ selected = <<>>
    /\ reads = {}
    /\ x_win = <<>>
    /\ y_win = <<>>
    /\ newton_val = NoValue
    /\ lag_val = NoValue
    /\ error = None
    /\ history = 0

EvalNewton ==
    /\ pc = "newton"
    /\ newton_val' = divided_difference_newton(x_sel, y_sel, target_x)[1]
    /\ pc' = "lagrange"
    /\ UNCHANGED <<shell, weekly_prices, x_all, y_all, date_in, target_x,
                   n_points, pos, left, right, selected, reads, x_sel, y_sel,
                   x_win, y_win, lag_val, error, history>>

EvalLagrange ==
    /\ pc = "lagrange"
    /\ lag_val' = lagrange_interpolation(x_sel, y_sel, target_x)
    /\ pc' = "done"
    /\ UNCHANGED <<shell, weekly_prices, x_all, y_all, date_in, target_x,
                   n_points, pos, left, right, selected, reads, x_sel, y_sel,
                   x_win, y_win, newton_val, error, history>>

EvalNext ==
    \/ EvalNewton
    \/ EvalLagrange

SpecEval == EvalInit /\ [][EvalNext]_vars

\* C8: in exact arithmetic the Newton evaluator and the Lagrange evaluator
\* return the same value for every selection of n >= 2 points with pairwise
\* distinct coordinates and every target.
C8_NewtonEqualsLagrange == pc = "done" => newton_val = lag_val

C8_Witness ==
    /\ pc = "done"
    /\ x_sel = <<Rat(1), Rat(2), Rat(4)>>
    /\ y_sel = <<Rat(0), Rat(2), Rat(1)>>
    /\ target_x = <<5, 2>>
    /\ newton_val = <<19, 8>>
    /\ lag_val = <<19, 8>>

\* C9: when the target is the coordinate of a selected observation, both
\* evaluators return the value stored there; coordinates 1..5 with values
\* [1,2,3,5,4], target 3, n = 5 give 3 from both.
C9_RoundTrip ==
    /\ \A k \in 1..Len(x_sel) :
          x_sel[k] = target_x =>
              /\ pc \in {"lagrange", "done"} => newton_val = y_sel[k]
              /\ pc = "done" => lag_val = y_sel[k]
    /\ (/\ pc = "done"
        /\ x_sel = <<Rat(1), Rat(2), Rat(3), Rat(4), Rat(5)>>
        /\ y_sel = <<Rat(1), Rat(2), Rat(3), Rat(5), Rat(4)>>
        /\ target_x = Rat(3))
          => (newton_val = Rat(3) /\ lag_val = Rat(3))

C9_Witness ==
    /\ pc = "done"
    /\ x_sel = <<Rat(1), Rat(2), Rat(3), Rat(4), Rat(5)>>
    /\ y_sel = <<Rat(1), Rat(2), Rat(3), Rat(5), Rat(4)>>
    /\ target_x = Rat(3)
    /\ newton_val = Rat(3)
    /\ lag_val = Rat(3)

(***************************************************************************)
(* The three programs.  A run is one process of one program: the prompt    *)
(* loop of EgPrice.py (pc is the prompt it waits at) or a Flask            *)
(* application answering one request after the other (pc is the kind of    *)
(* the request answered last: "get", "bad_form" when the date or the count *)
(* did not parse, "post" otherwise).  newton_val, lag_val, x_sel and error *)
(* are what the last answer (or the current turn of the prompt loop)       *)
(* shows; history is the length of the history list, and a query is only   *)
(* taken while it is below MaxHistory.  The store of a run is a prefix of  *)
(* the price list; MAX_WEEKS and MAX_POINTS keep their relation to it:     *)
(* EgPrice.py pads its list with None up to MAX_WEEKS, and MAX_POINTS is   *)
(* the length of the list of "Source Code/app.py".                         *)
(***************************************************************************)
MAX_WEEKS == MaxShellK + 1

MAX_POINTS == MaxShellK

Padded(k) == SubSeq(PriceList, 1, k) \o [i \in 1..(MAX_WEEKS - k) |-> NoPrice]

Dates == (-1)..MaxShellDay

Counts == (-1)..(MaxShellK + 1)

n_available == PopulatedCount(weekly_prices, 1)

Init ==
    /\ shell \in {"cli", "source", "site"}
    /\ \E k \in 2..MaxShellK :
          /\ shell = "cli" => weekly_prices = Padded(k)
          /\ shell = "source" => weekly_prices = SubSeq(PriceList, 1, MAX_POINTS)
          /\ shell = "site" => weekly_prices = SubSeq(PriceList, 1, k)
    /\ x_all = IF shell = "cli" THEN build_xy_from_weekly(weekly_prices)[1]
               ELSE <<>>
    /\ y_all = IF shell = "cli" THEN build_xy_from_weekly(weekly_prices)[2]
               ELSE <<>>
    /\ pc = IF shell = "cli" THEN "date" ELSE "idle"
    /\ date_in = 0
    /\ n_points = 0
    /\ target_x = NoValue
    /\ pos = None
    /\ left = None
    /\ right = None
    /\ selected = <<>>
    /\ reads = {}
    /\ x_sel = <<>>
    /\ y_sel = <<>>
    /\ x_win = <<>>
    /\ y_win = <<>>
    /\ newton_val = NoValue
    /\ lag_val = NoValue
    /\ error = None
    /\ history = 0

\* EgPrice.py, main: the date prompt
CliEnterDate(text, d) ==
    /\ shell = "cli"
    /\ pc = "date"
    /\ x_sel' = <<>>
    /\ y_sel' = <<>>
    /\ newton_val' = NoValue
    /\ lag_val' = NoValue
    /\ n_points' = 0
    /\ IF text = "exit"
       THEN /\ pc' = "exited"
            /\ error' = None
            /\ date_in' = 0
            /\ target_x' = NoValue
       ELSE IF text = "bad"
       THEN /\ pc' = "date"
            /\ error' = "Invalid format. Use MM-DD-YYYY."
            /\ date_in' = 0
            /\ target_x' = NoValue
       ELSE IF d < 0
       THEN /\ pc' = "date"
            /\ error' = "Date is before Week 1."
            /\ date_in' = d
            /\ target_x' = NoValue
       ELSE /\ pc' = "count"
            /\ error' = None
            /\ date_in' = d
            /\ target_x' = date_to_fractional_week(d)
    /\ UNCHANGED <<shell, weekly_prices, x_all, y_all, pos, left, right,
                   selected, reads, x_win, y_win, history>>

\* EgPrice.py, main: the count prompt and, once the count is accepted, the
\* selection and both estimates
CliEnterCount(text, np) ==
    /\ shell = "cli"
    /\ pc = "count"
    /\ IF text = "bad"
       THEN /\ error' = "Enter a number."
            /\ UNCHANGED <<pc, n_points, x_sel, y_sel, newton_val, lag_val>>
       ELSE IF ~(2 <= np /\ np <= Len(x_all))
       THEN /\ error' = "Invalid count."
            /\ n_points' = np
            /\ UNCHANGED <<pc, x_sel, y_sel, newton_val, lag_val>>
       ELSE \E sel \in {choose_nearest_points(x_all, y_all, target_x, np)} :
                /\ n_points' = np
                /\ IF sel[4] = "IndexError"
                   THEN /\ pc' = "crashed"
                        /\ error' = "IndexError"
                        /\ UNCHANGED <<x_sel, y_sel, newton_val, lag_val>>
                   ELSE /\ pc' = "show"
                        /\ error' = None
                        /\ x_sel' = sel[1]
                        /\ y_sel' = sel[2]
                        /\ newton_val' =
                              divided_difference_newton(sel[1], sel[2],
                                                        target_x)[1]
                        /\ lag_val' =
                              lagrange_interpolation(sel[1], sel[2], target_x)
    /\ UNCHANGED <<shell, weekly_prices, x_all, y_all, date_in, target_x, pos,
                   left, right, selected, reads, x_win, y_win, history>>

\* EgPrice.py, main: the coefficients prompt and the distance summary
CliShowCoefficients ==
    /\ shell = "cli"
    /\ pc = "show"
    /\ pc' = "date"
    /\ UNCHANGED <<shell, weekly_prices, x_all, y_all, date_in, target_x,
                   n_points, pos, left, right, selected, reads, x_sel, y_sel,
                   x_win, y_win, newton_val, lag_val, error, history>>

\* index() answering a GET: nothing is computed
FlaskGet ==
    /\ shell \in {"source", "site"}
    /\ pc' = "get"
    /\ date_in' = 0
    /\ n_points' = 0
    /\ target_x' = NoValue
    /\ x_sel' = <<>>
    /\ y_sel' = <<>>
    /\ newton_val' = NoValue
    /\ lag_val' = NoValue
    /\ error' = None
    /\ UNCHANGED <<shell, weekly_prices, x_all, y_all, pos, left, right,
                   selected, reads, x_win, y_win, history>>

\* a POST whose date or count is not a date or an integer: strptime or
\* int() raises ValueError, caught by the handler
FlaskPostBadForm ==
    /\ shell \in {"source", "site"}
    /\ pc' = "bad_form"
    /\ date_in' = 0
    /\ n_points' = 0
    /\ target_x' = NoValue
    /\ x_sel' = <<>>
    /\ y_sel' = <<>>
    /\ newton_val' = NoValue
    /\ lag_val' = NoValue
    /\ error' = "ValueError"
    /\ UNCHANGED <<shell, weekly_prices, x_all, y_all, pos, left, right,
                   selected, reads, x_win, y_win, history>>

\* what a POST with date d and count n answers, given the selection the
\* handler's selector returns: <<target, x_sel, y_sel, newton, lagrange,
\* error, logged>>
Rejected(msg) == <<NoValue, <<>>, <<>>, NoValue, NoValue, msg, 0>>

Answer(t, sel) ==
    IF Len(sel[1]) = 0
    THEN <<NoValue, sel[1], sel[2], NoValue, NoValue,
           "list index out of range", 0>>
    ELSE <<t, sel[1], sel[2], divided_difference_newton(sel[1], sel[2], t)[1],
           lagrange_interpolation(sel[1], sel[2], t), None, 1>>

\* "Source Code/app.py", index
SourceHandle(d, n) ==
    IF n < 2 \/ n > MAX_POINTS
    THEN Rejected("Data points must be between 2 and 119.")
    ELSE IF d < 0 THEN Rejected("Date is before Week 1.")
    ELSE LET t  == date_to_fractional_week(d)
             xy == build_xy(weekly_prices)
         IN  Answer(t, nearest_points(xy[1], xy[2], t, n))

\* site/app.py, index; the program is run as a script, which is what binds
\* the timedelta the handler uses for its table.  No check of n.
SiteHandle(d, n) ==
    IF d < 0 THEN Rejected("Date is before Week 1")
    ELSE LET t  == date_to_fractional_week(d)
             xy == build_xy(weekly_prices)
         IN  Answer(t, nearest_points_site(xy[1], xy[2], t, n))

FlaskPost(which, d, n) ==
    /\ shell = which
    /\ history < MaxHistory
    /\ \E a \in {IF which = "source" THEN SourceHandle(d, n)
                 ELSE SiteHandle(d, n)} :
           /\ target_x' = a[1]
           /\ x_sel' = a[2]
           /\ y_sel' = a[3]
           /\ newton_val' = a[4]
           /\ lag_val' = a[5]
           /\ error' = a[6]
           /\ history' = history + a[7]
    /\ pc' = "post"
    /\ date_in' = d
    /\ n_points' = n
    /\ UNCHANGED <<shell, weekly_prices, x_all, y_all, pos, left, right,
                   selected, reads, x_win, y_win>>

SourceIndexPost == \E d \in Dates : \E n \in Counts : FlaskPost("source", d, n)

SiteIndexPost == \E d \in Dates : \E n \in Counts : FlaskPost("site", d, n)

Next ==
    \/ \E text \in {"exit", "bad", "date"} : \E d \in Dates :
          CliEnterDate(text, d)
    \/ \E text \in {"bad", "int"} : \E np \in Counts : CliEnterCount(text, np)
    \/ CliShowCoefficients
    \/ FlaskGet
    \/ FlaskPostBadForm
    \/ SourceIndexPost
    \/ SiteIndexPost

Spec == Init /\ [][Next]_vars

Estimated == newton_val # NoValue \/ lag_val # NoValue

ValidCount == 2 <= n_points /\ n_points <= n_available

\* C3: a count outside [2, K] is rejected with an error and no estimate in
\* every program, and an estimate is only ever computed from exactly as
\* many points as were requested.
C3_InvalidCountRejected ==
    /\ Estimated => (ValidCount /\ Len(x_sel) = n_points)
    /\ (pc = "post" /\ ~ValidCount) => (error # None /\ ~Estimated)
    /\ (pc = "count" /\ n_points # 0) => (error # None /\ ~Estimated)
    /\ pc = "show" => ValidCount

\* C7: the base date maps to 1; a day later the coordinate is exactly 1/7
\* larger, within a week and from Sunday to Monday; 7 * map(d) = d + 7.
C7_DayStep ==
    target_x # NoValue =>
        /\ date_in = 0 => target_x = Rat(1)
        /\ RMul(Rat(DaysPerWeek), target_x) = Rat(date_in + DaysPerWeek)
        /\ RSub(date_to_fractional_week(date_in + 1), target_x)
              = <<1, DaysPerWeek>>
        /\ RLt(target_x, date_to_fractional_week(date_in + 1))

C7_Witness ==
    /\ shell = "cli"
    /\ pc = "count"
    /\ date_in = 6
    /\ target_x = <<13, 7>>
    /\ date_to_fractional_week(date_in + 1) = Rat(2)

====
